---- MODULE Spec2Model ----
(***************************************************************************)
(* Model of crates/primitives/starknet/src/transaction/types.rs: the       *)
(* canonical Transaction, the three variants (Declare, DeployAccount,      *)
(* Invoke), the upcasts from_declare / from_deploy / from_invoke, the      *)
(* downcasts (TryFrom / From <Transaction>), the projection to the RPC     *)
(* transaction and the projection of receipts.                             *)
(*                                                                         *)
(* Numbers are scaled: TLC integers are 32 bits wide, so the three widths  *)
(* that matter (u64 < felt252 < U256) are kept in their order with         *)
(* U64Bits < FeltBits < U256Bits.                                          *)
(***************************************************************************)
EXTENDS Integers, Sequences, FiniteSets, TLC

\* ---------------------------------------------------------------------
\* Bounds
\* ---------------------------------------------------------------------
U64Bits == 2
MaxVersion == 2
MaxLen == 1
MaxEvents == 2

FeltBits == U64Bits + 1
U256Bits == FeltBits + 1
U64_MAX == 2 ^ U64Bits - 1
FELT_MAX == 2 ^ FeltBits - 1
U256_MAX == 2 ^ U256Bits - 1

\* ---------------------------------------------------------------------
\* Option and Result
\* ---------------------------------------------------------------------
None == << >>
Some(x) == << x >>
Opt(S) == {None} \cup {Some(x) : x \in S}

Ok(x) == [tag |-> "Ok", value |-> x]
Err(e) == [tag |-> "Err", err |-> e]
Panic == [tag |-> "Panic"]
IsOk(r) == r.tag = "Ok"
IsErr(r, e) == r.tag = "Err" /\ r.err = e

ok_or(o, e) == IF o # None THEN Ok(o[1]) ELSE Err(e)
unwrap_or_default(o) == IF o # None THEN o[1] ELSE 0

BoundedSeq(S, n) == UNION {[1..k -> S] : k \in 0..n}

RECURSIVE SumSeq(_)
SumSeq(s) == IF s = << >> THEN 0 ELSE Head(s) + SumSeq(Tail(s))

\* ---------------------------------------------------------------------
\* Value domains
\* ---------------------------------------------------------------------
TxType == {"Invoke", "Declare", "DeployAccount", "L1Handler"}
Versions == 0..MaxVersion
FeltValues == {1, 2}
Nonces == {0, U64_MAX, U64_MAX + 1}
Salts == {0, FELT_MAX, U256_MAX}
ContractClasses == {"classA", "classB"}
ChainIds == {"SN_MAIN", "SN_GOERLI"}
FeltSeqs == BoundedSeq(FeltValues, MaxLen)

TransactionConversionError == {"MissingClassHash", "MissingClass"}
Felt252WrapperError ==
    {"FromArrayError", "InvalidLength", "InvalidCharacter", "OutOfRange", "ValueTooLarge"}
RPCTransactionConversionError ==
    {"UnknownVersion", "MissingInformation"} \cup Felt252WrapperError

\* From<Felt252WrapperError> for RPCTransactionConversionError
RPCErrorFromFelt(e) ==
    CASE e = "FromArrayError" -> "FromArrayError"
      [] e = "InvalidLength" -> "InvalidLength"
      [] e = "InvalidCharacter" -> "InvalidCharacter"
      [] e = "OutOfRange" -> "OutOfRange"
      [] e = "ValueTooLarge" -> "ValueTooLarge"

\* ---------------------------------------------------------------------
\* Collaborators outside types.rs
\* ---------------------------------------------------------------------
CallEntryPointWrapper_new(class_hash, ep_type, selector, calldata, storage, caller) ==
    [class_hash |-> class_hash,
     entrypoint_type |-> ep_type,
     entrypoint_selector |-> selector,
     calldata |-> calldata,
     storage_address |-> storage,
     caller_address |-> caller]

ChainIdFelt(c) == IF c = "SN_MAIN" THEN 1 ELSE 2
ClassFelt(k) == IF k = "classA" THEN 1 ELSE 2

calculate_declare_tx_hash(d, chain_id) ==
    (1 + d.version + d.sender_address + d.compiled_class_hash + ClassFelt(d.contract_class)
       + d.nonce + d.max_fee + ChainIdFelt(chain_id)) % (FELT_MAX + 1)

calculate_deploy_account_tx_hash(a, chain_id) ==
    (2 + a.version + a.sender_address + SumSeq(a.calldata) + a.nonce + a.salt
       + a.account_class_hash + a.max_fee + ChainIdFelt(chain_id)) % (FELT_MAX + 1)

calculate_invoke_tx_hash(v, chain_id) ==
    (3 + v.version + v.sender_address + SumSeq(v.calldata) + v.nonce
       + v.max_fee + ChainIdFelt(chain_id)) % (FELT_MAX + 1)

\* Felt252Wrapper::try_from(U256): fails when the value is not a field element
Felt252Wrapper_try_from_U256(u) ==
    IF u <= FELT_MAX THEN Ok(u) ELSE Err("FromArrayError")

\* TryInto<u64> for Felt252Wrapper: fails when the value does not fit 64 bits
Felt252Wrapper_try_into_u64(f) ==
    IF f <= U64_MAX THEN Ok(f) ELSE Err("ValueTooLarge")

\* Result::unwrap
unwrap(r) == IF r.tag = "Ok" THEN r ELSE Panic

\* ---------------------------------------------------------------------
\* Variants
\* ---------------------------------------------------------------------
DeclareTransaction ==
    [version : Versions, sender_address : FeltValues, compiled_class_hash : FeltValues,
     contract_class : ContractClasses, nonce : Nonces, signature : FeltSeqs,
     max_fee : FeltValues]

DeployAccountTransaction ==
    [version : Versions, sender_address : FeltValues, calldata : FeltSeqs,
     nonce : Nonces, salt : Salts, signature : FeltSeqs,
     account_class_hash : FeltValues, max_fee : FeltValues]

InvokeTransaction ==
    [version : Versions, sender_address : FeltValues, calldata : FeltSeqs,
     nonce : Nonces, signature : FeltSeqs, max_fee : FeltValues]

\* ---------------------------------------------------------------------
\* Upcasts
\* ---------------------------------------------------------------------
\* from_declare leaving the class payload out of the canonical value
from_declare_no_class(self, chain_id) ==
    [tx_type |-> "Declare",
     version |-> self.version,
     hash |-> calculate_declare_tx_hash(self, chain_id),
     signature |-> self.signature,
     sender_address |-> self.sender_address,
     nonce |-> self.nonce,
     call_entrypoint |-> CallEntryPointWrapper_new(
         Some(self.compiled_class_hash), "External", None, << >>,
         self.sender_address, self.sender_address),
     contract_class |-> None,
     contract_address_salt |-> None,
     max_fee |-> self.max_fee]

from_declare(self, chain_id) ==
    [tx_type |-> "Declare",
     version |-> self.version,
     hash |-> calculate_declare_tx_hash(self, chain_id),
     signature |-> self.signature,
     sender_address |-> self.sender_address,
     nonce |-> self.nonce,
     call_entrypoint |-> CallEntryPointWrapper_new(
         Some(self.compiled_class_hash), "External", None, << >>,
         self.sender_address, self.sender_address),
     contract_class |-> Some(self.contract_class),
     contract_address_salt |-> None,
     max_fee |-> self.max_fee]

\* from_deploy leaving the salt out, as the other two upcasts do
from_deploy_no_salt(self, chain_id) ==
    [tx_type |-> "DeployAccount",
     version |-> self.version,
     hash |-> calculate_deploy_account_tx_hash(self, chain_id),
     signature |-> self.signature,
     sender_address |-> self.sender_address,
     nonce |-> self.nonce,
     call_entrypoint |-> CallEntryPointWrapper_new(
         Some(self.account_class_hash), "External", None, self.calldata,
         self.sender_address, self.sender_address),
     contract_class |-> None,
     contract_address_salt |-> None,
     max_fee |-> self.max_fee]

from_deploy(self, chain_id) ==
    [tx_type |-> "DeployAccount",
     version |-> self.version,
     hash |-> calculate_deploy_account_tx_hash(self, chain_id),
     signature |-> self.signature,
     sender_address |-> self.sender_address,
     nonce |-> self.nonce,
     call_entrypoint |-> CallEntryPointWrapper_new(
         Some(self.account_class_hash), "External", None, self.calldata,
         self.sender_address, self.sender_address),
     contract_class |-> None,
     contract_address_salt |-> Some(self.salt),
     max_fee |-> self.max_fee]

\* from_invoke passing an empty calldata, as from_declare does
from_invoke_no_calldata(self, chain_id) ==
    [tx_type |-> "Invoke",
     version |-> self.version,
     hash |-> calculate_invoke_tx_hash(self, chain_id),
     signature |-> self.signature,
     sender_address |-> self.sender_address,
     nonce |-> self.nonce,
     call_entrypoint |-> CallEntryPointWrapper_new(
         None, "External", None, << >>,
         self.sender_address, self.sender_address),
     contract_class |-> None,
     contract_address_salt |-> None,
     max_fee |-> self.max_fee]

\* from_invoke filling in an entry-point selector
from_invoke_with_selector(self, chain_id) ==
    [tx_type |-> "Invoke",
     version |-> self.version,
     hash |-> calculate_invoke_tx_hash(self, chain_id),
     signature |-> self.signature,
     sender_address |-> self.sender_address,
     nonce |-> self.nonce,
     call_entrypoint |-> CallEntryPointWrapper_new(
         None, "External", Some(1), self.calldata,
         self.sender_address, self.sender_address),
     contract_class |-> None,
     contract_address_salt |-> None,
     max_fee |-> self.max_fee]

from_invoke(self, chain_id) ==
    [tx_type |-> "Invoke",
     version |-> self.version,
     hash |-> calculate_invoke_tx_hash(self, chain_id),
     signature |-> self.signature,
     sender_address |-> self.sender_address,
     nonce |-> self.nonce,
     call_entrypoint |-> CallEntryPointWrapper_new(
         None, "External", None, self.calldata,
         self.sender_address, self.sender_address),
     contract_class |-> None,
     contract_address_salt |-> None,
     max_fee |-> self.max_fee]

\* ---------------------------------------------------------------------
\* Downcasts
\* ---------------------------------------------------------------------
\* the Declare downcast defaulting a missing class hash instead of failing
DeclareTransaction_try_from_default_hash(value) ==
    LET contract_class == ok_or(value.contract_class, "MissingClass")
    IN  IF ~IsOk(contract_class) THEN contract_class
        ELSE Ok([version |-> value.version,
                 signature |-> value.signature,
                 sender_address |-> value.sender_address,
                 nonce |-> value.nonce,
                 contract_class |-> contract_class.value,
                 compiled_class_hash |-> unwrap_or_default(value.call_entrypoint.class_hash),
                 max_fee |-> value.max_fee])

\* the Declare downcast looking at the class hash before the class payload
DeclareTransaction_try_from_hash_first(value) ==
    LET contract_class == ok_or(value.contract_class, "MissingClass")
        compiled_class_hash == ok_or(value.call_entrypoint.class_hash, "MissingClassHash")
    IN  IF ~IsOk(compiled_class_hash) THEN compiled_class_hash
        ELSE IF ~IsOk(contract_class) THEN contract_class
        ELSE Ok([version |-> value.version,
                 signature |-> value.signature,
                 sender_address |-> value.sender_address,
                 nonce |-> value.nonce,
                 contract_class |-> contract_class.value,
                 compiled_class_hash |-> compiled_class_hash.value,
                 max_fee |-> value.max_fee])

DeclareTransaction_try_from(value) ==
    LET contract_class == ok_or(value.contract_class, "MissingClass")
        compiled_class_hash == ok_or(value.call_entrypoint.class_hash, "MissingClassHash")
    IN  IF ~IsOk(contract_class) THEN contract_class
        ELSE IF ~IsOk(compiled_class_hash) THEN compiled_class_hash
        ELSE Ok([version |-> value.version,
                 signature |-> value.signature,
                 sender_address |-> value.sender_address,
                 nonce |-> value.nonce,
                 contract_class |-> contract_class.value,
                 compiled_class_hash |-> compiled_class_hash.value,
                 max_fee |-> value.max_fee])

\* the DeployAccount downcast requiring the salt, as the projection does
DeployAccountTransaction_try_from_salt_required(value) ==
    LET account_class_hash == ok_or(value.call_entrypoint.class_hash, "MissingClassHash")
        salt == ok_or(value.contract_address_salt, "MissingClass")
    IN  IF ~IsOk(salt) THEN salt
        ELSE IF ~IsOk(account_class_hash) THEN account_class_hash
        ELSE Ok([version |-> value.version,
                 signature |-> value.signature,
                 sender_address |-> value.sender_address,
                 nonce |-> value.nonce,
                 calldata |-> value.call_entrypoint.calldata,
                 salt |-> salt.value,
                 account_class_hash |-> account_class_hash.value,
                 max_fee |-> value.max_fee])

DeployAccountTransaction_try_from(value) ==
    LET account_class_hash == ok_or(value.call_entrypoint.class_hash, "MissingClassHash")
    IN  IF ~IsOk(account_class_hash) THEN account_class_hash
        ELSE Ok([version |-> value.version,
                 signature |-> value.signature,
                 sender_address |-> value.sender_address,
                 nonce |-> value.nonce,
                 calldata |-> value.call_entrypoint.calldata,
                 salt |-> unwrap_or_default(value.contract_address_salt),
                 account_class_hash |-> account_class_hash.value,
                 max_fee |-> value.max_fee])

InvokeTransaction_from(value) ==
    [version |-> value.version,
     signature |-> value.signature,
     sender_address |-> value.sender_address,
     nonce |-> value.nonce,
     calldata |-> value.call_entrypoint.calldata,
     max_fee |-> value.max_fee]

\* ---------------------------------------------------------------------
\* Projection to the RPC transaction
\* ---------------------------------------------------------------------
\* value.signature.iter().map(|&f| f.0).collect()
FeltSeqToRPC(s) == [i \in 1..Len(s) |-> s[i]]

\* let class_hash = value.call_entrypoint.class_hash.ok_or(MissingInformation)
rpc_class_hash(value) == ok_or(value.call_entrypoint.class_hash, "MissingInformation")

\* let entry_point_selector = value.call_entrypoint.entrypoint_selector.ok_or(..)
rpc_entry_point_selector(value) ==
    ok_or(value.call_entrypoint.entrypoint_selector, "MissingInformation")

\* the Declare arm dispatching on the version before looking at the class hash
RPCDeclare_version_first(value) ==
    LET class_hash == rpc_class_hash(value)
    IN  IF value.version \notin {1, 2} THEN Err("UnknownVersion")
        ELSE IF ~IsOk(class_hash) THEN class_hash
        ELSE IF value.version = 1 THEN
            Ok([kind |-> "Declare", sub |-> "V1",
                transaction_hash |-> value.hash,
                max_fee |-> value.max_fee,
                signature |-> FeltSeqToRPC(value.signature),
                nonce |-> value.nonce,
                class_hash |-> class_hash.value,
                sender_address |-> value.sender_address])
        ELSE
            Ok([kind |-> "Declare", sub |-> "V2",
                transaction_hash |-> value.hash,
                max_fee |-> value.max_fee,
                signature |-> FeltSeqToRPC(value.signature),
                nonce |-> value.nonce,
                class_hash |-> class_hash.value,
                sender_address |-> value.sender_address,
                compiled_class_hash |-> class_hash.value])

\* TxType::Declare arm
RPCDeclare(value) ==
    LET class_hash == rpc_class_hash(value)
    IN  IF ~IsOk(class_hash) THEN class_hash
        ELSE IF value.version = 1 THEN
            Ok([kind |-> "Declare", sub |-> "V1",
                transaction_hash |-> value.hash,
                max_fee |-> value.max_fee,
                signature |-> FeltSeqToRPC(value.signature),
                nonce |-> value.nonce,
                class_hash |-> class_hash.value,
                sender_address |-> value.sender_address])
        ELSE IF value.version = 2 THEN
            Ok([kind |-> "Declare", sub |-> "V2",
                transaction_hash |-> value.hash,
                max_fee |-> value.max_fee,
                signature |-> FeltSeqToRPC(value.signature),
                nonce |-> value.nonce,
                class_hash |-> class_hash.value,
                sender_address |-> value.sender_address,
                compiled_class_hash |-> class_hash.value])
        ELSE Err("UnknownVersion")

\* the Invoke arm extracting the selector before the version dispatch
RPCInvoke_selector_first(value) ==
    LET entry_point_selector == rpc_entry_point_selector(value)
    IN  IF ~IsOk(entry_point_selector) THEN entry_point_selector
        ELSE IF value.version = 0 THEN
            Ok([kind |-> "Invoke", sub |-> "V0",
                transaction_hash |-> value.hash,
                max_fee |-> value.max_fee,
                signature |-> FeltSeqToRPC(value.signature),
                nonce |-> value.nonce,
                contract_address |-> value.call_entrypoint.storage_address,
                entry_point_selector |-> entry_point_selector.value,
                calldata |-> FeltSeqToRPC(value.call_entrypoint.calldata)])
        ELSE IF value.version = 1 THEN
            Ok([kind |-> "Invoke", sub |-> "V1",
                transaction_hash |-> value.hash,
                max_fee |-> value.max_fee,
                signature |-> FeltSeqToRPC(value.signature),
                nonce |-> value.nonce,
                sender_address |-> value.sender_address,
                calldata |-> FeltSeqToRPC(value.call_entrypoint.calldata)])
        ELSE Err("UnknownVersion")

\* the Invoke arm filling the V1 sub-kind with nonce and max fee exchanged
RPCInvoke_v1_swapped(value) ==
    LET entry_point_selector == rpc_entry_point_selector(value)
    IN  IF value.version = 0 THEN
            IF ~IsOk(entry_point_selector) THEN entry_point_selector
            ELSE Ok([kind |-> "Invoke", sub |-> "V0",
                     transaction_hash |-> value.hash,
                     max_fee |-> value.max_fee,
                     signature |-> FeltSeqToRPC(value.signature),
                     nonce |-> value.nonce,
                     contract_address |-> value.call_entrypoint.storage_address,
                     entry_point_selector |-> entry_point_selector.value,
                     calldata |-> FeltSeqToRPC(value.call_entrypoint.calldata)])
        ELSE IF value.version = 1 THEN
            Ok([kind |-> "Invoke", sub |-> "V1",
                transaction_hash |-> value.hash,
                max_fee |-> value.nonce,
                signature |-> FeltSeqToRPC(value.signature),
                nonce |-> value.max_fee,
                sender_address |-> value.sender_address,
                calldata |-> FeltSeqToRPC(value.call_entrypoint.calldata)])
        ELSE Err("UnknownVersion")

\* TxType::Invoke arm
RPCInvoke(value) ==
    LET entry_point_selector == rpc_entry_point_selector(value)
    IN  IF value.version = 0 THEN
            IF ~IsOk(entry_point_selector) THEN entry_point_selector
            ELSE Ok([kind |-> "Invoke", sub |-> "V0",
                     transaction_hash |-> value.hash,
                     max_fee |-> value.max_fee,
                     signature |-> FeltSeqToRPC(value.signature),
                     nonce |-> value.nonce,
                     contract_address |-> value.call_entrypoint.storage_address,
                     entry_point_selector |-> entry_point_selector.value,
                     calldata |-> FeltSeqToRPC(value.call_entrypoint.calldata)])
        ELSE IF value.version = 1 THEN
            Ok([kind |-> "Invoke", sub |-> "V1",
                transaction_hash |-> value.hash,
                max_fee |-> value.max_fee,
                signature |-> FeltSeqToRPC(value.signature),
                nonce |-> value.nonce,
                sender_address |-> value.sender_address,
                calldata |-> FeltSeqToRPC(value.call_entrypoint.calldata)])
        ELSE Err("UnknownVersion")

\* the DeployAccount arm defaulting a missing salt, as the downcast does
RPCDeployAccount_default_salt(value) ==
    LET salt_felt == Felt252Wrapper_try_from_U256(unwrap_or_default(value.contract_address_salt))
        class_hash == rpc_class_hash(value)
    IN  IF ~IsOk(salt_felt) THEN Err(RPCErrorFromFelt(salt_felt.err))
        ELSE IF ~IsOk(class_hash) THEN class_hash
        ELSE Ok([kind |-> "DeployAccount", sub |-> "DeployAccount",
                 transaction_hash |-> value.hash,
                 max_fee |-> value.max_fee,
                 signature |-> FeltSeqToRPC(value.signature),
                 nonce |-> value.nonce,
                 contract_address_salt |-> salt_felt.value,
                 constructor_calldata |-> FeltSeqToRPC(value.call_entrypoint.calldata),
                 class_hash |-> class_hash.value])

\* TxType::DeployAccount arm; the fields are evaluated in the order written,
\* the salt before the class hash
RPCDeployAccount(value) ==
    LET salt == ok_or(value.contract_address_salt, "MissingInformation")
        salt_felt == Felt252Wrapper_try_from_U256(salt.value)
        class_hash == rpc_class_hash(value)
    IN  IF ~IsOk(salt) THEN salt
        ELSE IF ~IsOk(salt_felt) THEN Err(RPCErrorFromFelt(salt_felt.err))
        ELSE IF ~IsOk(class_hash) THEN class_hash
        ELSE Ok([kind |-> "DeployAccount", sub |-> "DeployAccount",
                 transaction_hash |-> value.hash,
                 max_fee |-> value.max_fee,
                 signature |-> FeltSeqToRPC(value.signature),
                 nonce |-> value.nonce,
                 contract_address_salt |-> salt_felt.value,
                 constructor_calldata |-> FeltSeqToRPC(value.call_entrypoint.calldata),
                 class_hash |-> class_hash.value])

\* TxType::L1Handler arm; the nonce is narrowed and unwrapped first
RPCL1Handler(value) ==
    LET nonce == unwrap(Felt252Wrapper_try_into_u64(value.nonce))
        entry_point_selector == rpc_entry_point_selector(value)
    IN  IF ~IsOk(nonce) THEN nonce
        ELSE IF ~IsOk(entry_point_selector) THEN entry_point_selector
        ELSE Ok([kind |-> "L1Handler", sub |-> "L1Handler",
                 transaction_hash |-> value.hash,
                 version |-> value.version,
                 nonce |-> nonce.value,
                 contract_address |-> value.call_entrypoint.storage_address,
                 entry_point_selector |-> entry_point_selector.value,
                 calldata |-> FeltSeqToRPC(value.call_entrypoint.calldata)])

RPCTransaction_try_from(value) ==
    CASE value.tx_type = "Declare" -> RPCDeclare(value)
      [] value.tx_type = "Invoke" -> RPCInvoke(value)
      [] value.tx_type = "DeployAccount" -> RPCDeployAccount(value)
      [] value.tx_type = "L1Handler" -> RPCL1Handler(value)

\* ---------------------------------------------------------------------
\* Receipts
\* ---------------------------------------------------------------------
RPCTransactionStatus ==
    {"Received", "Pending", "AcceptedOnL2", "AcceptedOnL1", "Rejected"}

\* From<EventWrapper> for RPCEvent
RPCEvent_from(value) ==
    [from_address |-> value.from_address,
     keys |-> FeltSeqToRPC(value.keys),
     data |-> FeltSeqToRPC(value.data)]

FIELD_ELEMENT_ZERO == 0

\* the fields the four receipt kinds share
RPCReceiptFields(self, st) ==
    [transaction_hash |-> self.transaction_hash,
     actual_fee |-> self.actual_fee,
     status |-> st,
     block_hash |-> self.block_hash,
     block_number |-> self.block_number,
     messages_sent |-> << >>,
     events |-> [i \in 1..Len(self.events) |-> RPCEvent_from(self.events[i])]]

\* the receipt projection reporting every DeployAccount receipt as accepted
into_maybe_pending_transaction_receipt_fixed_status(self, st) ==
    CASE self.tx_type = "DeployAccount" ->
           [maybe_pending |-> "Receipt", kind |-> "DeployAccount",
            contract_address |-> FIELD_ELEMENT_ZERO]
           @@ RPCReceiptFields(self, "AcceptedOnL2")
      [] self.tx_type = "Declare" ->
           [maybe_pending |-> "Receipt", kind |-> "Declare"] @@ RPCReceiptFields(self, st)
      [] self.tx_type = "Invoke" ->
           [maybe_pending |-> "Receipt", kind |-> "Invoke"] @@ RPCReceiptFields(self, st)
      [] self.tx_type = "L1Handler" ->
           [maybe_pending |-> "Receipt", kind |-> "L1Handler"] @@ RPCReceiptFields(self, st)

into_maybe_pending_transaction_receipt(self, st) ==
    CASE self.tx_type = "DeployAccount" ->
           [maybe_pending |-> "Receipt", kind |-> "DeployAccount",
            contract_address |-> FIELD_ELEMENT_ZERO] @@ RPCReceiptFields(self, st)
      [] self.tx_type = "Declare" ->
           [maybe_pending |-> "Receipt", kind |-> "Declare"] @@ RPCReceiptFields(self, st)
      [] self.tx_type = "Invoke" ->
           [maybe_pending |-> "Receipt", kind |-> "Invoke"] @@ RPCReceiptFields(self, st)
      [] self.tx_type = "L1Handler" ->
           [maybe_pending |-> "Receipt", kind |-> "L1Handler"] @@ RPCReceiptFields(self, st)

\* ---------------------------------------------------------------------
\* Canonical values
\* ---------------------------------------------------------------------
CallEntryPointWrapper ==
    [class_hash : Opt({2}), entrypoint_type : {"External"},
     entrypoint_selector : Opt({1}), calldata : FeltSeqs,
     storage_address : FeltValues, caller_address : {1}]

Transaction ==
    [tx_type : TxType, version : Versions, hash : FeltValues, signature : FeltSeqs,
     sender_address : FeltValues, nonce : Nonces, call_entrypoint : CallEntryPointWrapper,
     contract_class : Opt({"classA"}), contract_address_salt : Opt(Salts),
     max_fee : FeltValues]

EventWrapper ==
    [keys : BoundedSeq({1}, MaxLen), data : {<< >>, <<3>>}, from_address : FeltValues,
     transaction_hash : {1}]

TransactionReceiptWrapper ==
    [transaction_hash : FeltValues, actual_fee : FeltValues, tx_type : TxType,
     block_number : {0, U64_MAX}, block_hash : FeltValues,
     events : BoundedSeq(EventWrapper, MaxEvents)]

\* ---------------------------------------------------------------------
\* State
\* ---------------------------------------------------------------------
VARIABLES
    variant,      \* the variant in hand, tagged with its kind, or NoVariant
    chain_id,     \* the chain id the upcasts are called with
    tx,           \* the canonical Transaction in hand, or NoTx
    orig,         \* the variant tx was upcast from, or NoVariant
    result,       \* the last conversion applied to tx and what it returned
    receipt,      \* the canonical receipt in hand, or NoReceipt
    status,       \* the status the caller passes to the receipt projection
    rpc_receipt   \* the projected receipt, or NoReceipt

vars == <<variant, chain_id, tx, orig, result, receipt, status, rpc_receipt>>

NoVariant == [kind |-> "None"]
NoTx == [tx_type |-> "None"]
NoResult == [op |-> "None"]
NoReceipt == [tx_type |-> "None"]

Variants ==
    {[kind |-> "Declare", v |-> d] : d \in DeclareTransaction}
    \cup {[kind |-> "DeployAccount", v |-> a] : a \in DeployAccountTransaction}
    \cup {[kind |-> "Invoke", v |-> i] : i \in InvokeTransaction}

\* A variant arrives from a client.
Init ==
    /\ variant \in Variants
    /\ chain_id \in ChainIds
    /\ tx = NoTx
    /\ orig = NoVariant
    /\ result = NoResult
    /\ receipt = NoReceipt
    /\ status = "Received"
    /\ rpc_receipt = NoReceipt

\* A canonical Transaction is decoded from storage (scale_codec::Decode).
InitAny ==
    /\ variant = NoVariant
    /\ chain_id \in {"SN_MAIN"}
    /\ tx \in Transaction
    /\ orig = NoVariant
    /\ result = NoResult
    /\ receipt = NoReceipt
    /\ status = "Received"
    /\ rpc_receipt = NoReceipt

\* A receipt is produced by the execution engine and queried with a status.
InitReceipt ==
    /\ variant = NoVariant
    /\ chain_id \in {"SN_MAIN"}
    /\ tx = NoTx
    /\ orig = NoVariant
    /\ result = NoResult
    /\ receipt \in TransactionReceiptWrapper
    /\ status \in RPCTransactionStatus
    /\ rpc_receipt = NoReceipt

\* ---------------------------------------------------------------------
\* Actions
\* ---------------------------------------------------------------------
Upcast(kind, t) ==
    /\ tx' = t
    /\ orig' = variant
    /\ variant' = NoVariant
    /\ result' = NoResult
    /\ UNCHANGED <<chain_id, receipt, status, rpc_receipt>>

FromDeclare ==
    /\ variant.kind = "Declare"
    /\ Upcast("Declare", from_declare(variant.v, chain_id))

FromDeploy ==
    /\ variant.kind = "DeployAccount"
    /\ Upcast("DeployAccount", from_deploy(variant.v, chain_id))

FromInvoke ==
    /\ variant.kind = "Invoke"
    /\ Upcast("Invoke", from_invoke(variant.v, chain_id))

DeclareTryFrom ==
    /\ tx # NoTx
    /\ LET r == DeclareTransaction_try_from(tx)
       IN  /\ result' = [op |-> "DeclareTryFrom", res |-> r]
           /\ variant' = IF IsOk(r) THEN [kind |-> "Declare", v |-> r.value] ELSE NoVariant
    /\ UNCHANGED <<chain_id, tx, orig, receipt, status, rpc_receipt>>

DeployAccountTryFrom ==
    /\ tx # NoTx
    /\ LET r == DeployAccountTransaction_try_from(tx)
       IN  /\ result' = [op |-> "DeployAccountTryFrom", res |-> r]
           /\ variant' = IF IsOk(r) THEN [kind |-> "DeployAccount", v |-> r.value]
                         ELSE NoVariant
    /\ UNCHANGED <<chain_id, tx, orig, receipt, status, rpc_receipt>>

InvokeFrom ==
    /\ tx # NoTx
    /\ LET r == InvokeTransaction_from(tx)
       IN  /\ result' = [op |-> "InvokeFrom", res |-> r]
           /\ variant' = [kind |-> "Invoke", v |-> r]
    /\ UNCHANGED <<chain_id, tx, orig, receipt, status, rpc_receipt>>

RPCTryFrom ==
    /\ tx # NoTx
    /\ result' = [op |-> "RPCTryFrom", res |-> RPCTransaction_try_from(tx)]
    /\ UNCHANGED <<variant, chain_id, tx, orig, receipt, status, rpc_receipt>>

IntoMaybePendingTransactionReceipt ==
    /\ receipt # NoReceipt
    /\ rpc_receipt' = into_maybe_pending_transaction_receipt(receipt, status)
    /\ UNCHANGED <<variant, chain_id, tx, orig, result, receipt, status>>

Next ==
    \/ FromDeclare
    \/ FromDeploy
    \/ FromInvoke
    \/ DeclareTryFrom
    \/ DeployAccountTryFrom
    \/ InvokeFrom
    \/ RPCTryFrom

NextAny ==
    \/ DeclareTryFrom
    \/ DeployAccountTryFrom
    \/ InvokeFrom
    \/ RPCTryFrom

NextReceipt == IntoMaybePendingTransactionReceipt

Spec == Init /\ [][Next]_vars
SpecAny == InitAny /\ [][NextAny]_vars
SpecReceipt == InitReceipt /\ [][NextReceipt]_vars

\* ---------------------------------------------------------------------
\* Properties
\* ---------------------------------------------------------------------

\* C1: an Invoke variant that was upcast with from_invoke and downcast again
\* with InvokeTransaction::from is the original variant, field by field.
C1_InvokeRoundTrip ==
    (orig.kind = "Invoke" /\ result.op = "InvokeFrom") => result.res = orig.v

C1_Witness ==
    /\ orig.kind = "Invoke"
    /\ result.op = "InvokeFrom"
    /\ orig.v.calldata # << >>
    /\ orig.v.signature # << >>
    /\ result.res.calldata = orig.v.calldata

\* C2: a Declare variant upcast with from_declare and downcast with
\* DeclareTransaction::try_from gives Ok of the original variant, and a
\* DeployAccount variant upcast with from_deploy and downcast with
\* DeployAccountTransaction::try_from gives Ok of the original variant
\* (the salt included, also when it is zero); the upcast always yields a
\* canonical value.
C2_DeclareDeployRoundTrip ==
    /\ (orig.kind \in {"Declare", "DeployAccount"}) => tx.tx_type = orig.kind
    /\ (orig.kind = "Declare" /\ result.op = "DeclareTryFrom") => result.res = Ok(orig.v)
    /\ (orig.kind = "DeployAccount" /\ result.op = "DeployAccountTryFrom")
           => result.res = Ok(orig.v)

C2_Witness ==
    /\ orig.kind = "DeployAccount"
    /\ result.op = "DeployAccountTryFrom"
    /\ IsOk(result.res)
    /\ orig.v.salt # 0
    /\ result.res.value.salt = orig.v.salt

\* C3: every canonical Transaction obtained from variants by upcasts and
\* downcasts carries a class payload exactly when it is a Declare, a salt
\* exactly when it is a DeployAccount, a class hash when it is a Declare or
\* a DeployAccount and none when it is an Invoke.
C3_CanonicalInvariants ==
    tx # NoTx =>
        /\ (tx.contract_class # None) <=> (tx.tx_type = "Declare")
        /\ (tx.contract_address_salt # None) <=> (tx.tx_type = "DeployAccount")
        /\ (tx.tx_type \in {"Declare", "DeployAccount"}) => tx.call_entrypoint.class_hash # None
        /\ (tx.tx_type = "Invoke") => tx.call_entrypoint.class_hash = None

\* a DeployAccount canonical value with a zero salt (what the upcast of a
\* Declare downcast as a DeployAccount is), on which a downcast has acted
C3_Witness ==
    /\ tx # NoTx
    /\ tx.tx_type = "DeployAccount"
    /\ orig.kind = "DeployAccount"
    /\ orig.v.salt = 0
    /\ tx.contract_address_salt = Some(0)
    /\ tx.contract_class = None
    /\ result.op = "InvokeFrom"

\* C4 as stated: a Declare-tagged Transaction without class hash is always
\* rejected with MissingClassHash, whatever its other fields are.
C4_AlwaysMissingClassHash ==
    (tx # NoTx /\ tx.tx_type = "Declare" /\ tx.call_entrypoint.class_hash = None
        /\ result.op = "DeclareTryFrom")
    => IsErr(result.res, "MissingClassHash")

\* C4 amended: a Declare-tagged Transaction without class hash is always
\* rejected by DeclareTransaction::try_from, never turned into a variant: with
\* MissingClassHash when the class payload is present, with MissingClass
\* when the class payload is absent too.
C4_MissingClassHash ==
    (tx # NoTx /\ tx.tx_type = "Declare" /\ tx.call_entrypoint.class_hash = None
        /\ result.op = "DeclareTryFrom")
    => /\ ~IsOk(result.res)
       /\ (tx.contract_class # None) => IsErr(result.res, "MissingClassHash")
       /\ (tx.contract_class = None) => IsErr(result.res, "MissingClass")

C4_Witness ==
    /\ tx # NoTx
    /\ tx.tx_type = "Declare"
    /\ tx.call_entrypoint.class_hash = None
    /\ tx.contract_class # None
    /\ result.op = "DeclareTryFrom"
    /\ IsErr(result.res, "MissingClassHash")

\* C5: a Declare-tagged Transaction without class payload is rejected by
\* DeclareTransaction::try_from with MissingClass, whether or not the class
\* hash is present.
C5_MissingClass ==
    (tx # NoTx /\ tx.tx_type = "Declare" /\ tx.contract_class = None
        /\ result.op = "DeclareTryFrom")
    => IsErr(result.res, "MissingClass")

C5_Witness ==
    /\ tx # NoTx
    /\ tx.tx_type = "Declare"
    /\ tx.contract_class = None
    /\ tx.call_entrypoint.class_hash = None
    /\ result.op = "DeclareTryFrom"
    /\ IsErr(result.res, "MissingClass")

\* the canonical Transaction in hand has been projected and is of type t
Projected(t) == tx # NoTx /\ tx.tx_type = t /\ result.op = "RPCTryFrom"

\* C6 as stated: the projection of a Declare-tagged Transaction fails with
\* UnknownVersion when the version is neither 1 nor 2, returns the V1
\* sub-kind (no compiled class hash) at version 1 and the V2 sub-kind with
\* compiled_class_hash = class_hash at version 2.
C6_DeclareAnyClassHash ==
    Projected("Declare") =>
        /\ (tx.version \notin {1, 2}) => IsErr(result.res, "UnknownVersion")
        /\ (tx.version = 1) =>
              /\ IsOk(result.res)
              /\ result.res.value.sub = "V1"
              /\ "compiled_class_hash" \notin DOMAIN result.res.value
              /\ Some(result.res.value.class_hash) = tx.call_entrypoint.class_hash
        /\ (tx.version = 2) =>
              /\ IsOk(result.res)
              /\ result.res.value.sub = "V2"
              /\ Some(result.res.value.class_hash) = tx.call_entrypoint.class_hash
              /\ result.res.value.compiled_class_hash = result.res.value.class_hash

\* C6 amended: the projection of a Declare-tagged Transaction whose class
\* hash is absent fails with MissingInformation at every version; when the
\* class hash is present it fails with UnknownVersion at a version other
\* than 1 and 2, returns the V1 sub-kind without compiled class hash at
\* version 1, and the V2 sub-kind with compiled_class_hash = class_hash =
\* call_entrypoint.class_hash at version 2.
C6_DeclareProjection ==
    Projected("Declare") =>
        IF tx.call_entrypoint.class_hash = None
        THEN IsErr(result.res, "MissingInformation")
        ELSE /\ (tx.version \notin {1, 2}) => IsErr(result.res, "UnknownVersion")
             /\ (tx.version = 1) =>
                   /\ IsOk(result.res)
                   /\ result.res.value.kind = "Declare"
                   /\ result.res.value.sub = "V1"
                   /\ "compiled_class_hash" \notin DOMAIN result.res.value
                   /\ result.res.value.class_hash = tx.call_entrypoint.class_hash[1]
             /\ (tx.version = 2) =>
                   /\ IsOk(result.res)
                   /\ result.res.value.kind = "Declare"
                   /\ result.res.value.sub = "V2"
                   /\ result.res.value.class_hash = tx.call_entrypoint.class_hash[1]
                   /\ result.res.value.compiled_class_hash = result.res.value.class_hash

C6_Witness ==
    /\ Projected("Declare")
    /\ tx.version = 2
    /\ IsOk(result.res)
    /\ result.res.value.sub = "V2"
    /\ result.res.value.compiled_class_hash # tx.sender_address

\* C7: the projection of an Invoke-tagged Transaction depends on the version
\* only: version 0 gives the V0 sub-kind with contract_address =
\* call_entrypoint.storage_address and the selector, or MissingInformation
\* when the selector is absent; version 1 gives the V1 sub-kind with
\* sender_address and calldata whether or not selector and class hash are
\* present; any other version fails with UnknownVersion.
C7_InvokeProjection ==
    Projected("Invoke") =>
        /\ (tx.version = 0 /\ tx.call_entrypoint.entrypoint_selector = None)
               => IsErr(result.res, "MissingInformation")
        /\ (tx.version = 0 /\ tx.call_entrypoint.entrypoint_selector # None) =>
               /\ IsOk(result.res)
               /\ result.res.value.kind = "Invoke"
               /\ result.res.value.sub = "V0"
               /\ result.res.value.contract_address = tx.call_entrypoint.storage_address
               /\ result.res.value.entry_point_selector
                      = tx.call_entrypoint.entrypoint_selector[1]
               /\ result.res.value.calldata = tx.call_entrypoint.calldata
        /\ (tx.version = 1) =>
               /\ IsOk(result.res)
               /\ result.res.value.kind = "Invoke"
               /\ result.res.value.sub = "V1"
               /\ result.res.value.sender_address = tx.sender_address
               /\ result.res.value.calldata = tx.call_entrypoint.calldata
               /\ "entry_point_selector" \notin DOMAIN result.res.value
        /\ (tx.version \notin {0, 1}) => IsErr(result.res, "UnknownVersion")

C7_Witness ==
    /\ Projected("Invoke")
    /\ tx.version = 1
    /\ tx.call_entrypoint.entrypoint_selector = None
    /\ tx.call_entrypoint.class_hash # None
    /\ tx.call_entrypoint.calldata # << >>
    /\ IsOk(result.res)
    /\ result.res.value.sub = "V1"

\* C8: every projection ends with Ok or with a member of
\* RPCTransactionConversionError, also that of an L1Handler whose nonce
\* does not fit 64 bits; it never panics.
C8_NoPanic ==
    (tx # NoTx /\ result.op = "RPCTryFrom") =>
        \/ IsOk(result.res)
        \/ /\ result.res.tag = "Err"
           /\ result.res.err \in RPCTransactionConversionError

\* C9 as stated: the projection of a DeployAccount-tagged Transaction does
\* not look at the version; it fails with MissingInformation when the salt
\* is absent or when the class hash is absent, and otherwise, the salt being
\* a field element, returns the DeployAccount sub-kind with
\* constructor_calldata = calldata, class_hash = call_entrypoint.class_hash
\* and contract_address_salt = the salt.
C9_DeployAlwaysMissingInformation ==
    Projected("DeployAccount") =>
        /\ \A ver \in Versions :
               RPCTransaction_try_from([tx EXCEPT !.version = ver]) = result.res
        /\ (tx.contract_address_salt = None \/ tx.call_entrypoint.class_hash = None)
               => IsErr(result.res, "MissingInformation")
        /\ (/\ tx.contract_address_salt # None
            /\ tx.call_entrypoint.class_hash # None
            /\ tx.contract_address_salt[1] <= FELT_MAX) =>
               /\ IsOk(result.res)
               /\ result.res.value.kind = "DeployAccount"
               /\ result.res.value.constructor_calldata = tx.call_entrypoint.calldata
               /\ result.res.value.class_hash = tx.call_entrypoint.class_hash[1]
               /\ result.res.value.contract_address_salt = tx.contract_address_salt[1]

\* C9 amended: the projection of a DeployAccount-tagged Transaction does not
\* look at the version. It fails with MissingInformation when the salt is
\* absent; a salt that is present but is not a field element fails with the
\* conversion's error, whether or not the class hash is present; with a
\* convertible salt it fails with MissingInformation when the class hash is
\* absent and otherwise returns the DeployAccount sub-kind with
\* constructor_calldata = calldata, class_hash = call_entrypoint.class_hash
\* and contract_address_salt = the salt.
C9_DeployAccountProjection ==
    Projected("DeployAccount") =>
        /\ \A ver \in Versions :
               RPCTransaction_try_from([tx EXCEPT !.version = ver]) = result.res
        /\ IF tx.contract_address_salt = None
           THEN IsErr(result.res, "MissingInformation")
           ELSE IF tx.contract_address_salt[1] > FELT_MAX
           THEN result.res.tag = "Err" /\ result.res.err \in Felt252WrapperError
           ELSE IF tx.call_entrypoint.class_hash = None
           THEN IsErr(result.res, "MissingInformation")
           ELSE /\ IsOk(result.res)
                /\ result.res.value.kind = "DeployAccount"
                /\ result.res.value.constructor_calldata = tx.call_entrypoint.calldata
                /\ result.res.value.class_hash = tx.call_entrypoint.class_hash[1]
                /\ result.res.value.contract_address_salt = tx.contract_address_salt[1]

C9_Witness ==
    /\ Projected("DeployAccount")
    /\ tx.version = 0
    /\ tx.contract_address_salt = Some(FELT_MAX)
    /\ tx.call_entrypoint.calldata # << >>
    /\ IsOk(result.res)
    /\ result.res.value.contract_address_salt = FELT_MAX

\* C10: the receipt projection returns a non-pending receipt of the
\* receipt's tx_type, with the receipt's transaction hash, actual fee, block
\* hash and block number, the status the caller passed, the receipt's events
\* in the same order and number, and no messages.
C10_ReceiptProjection ==
    rpc_receipt # NoReceipt =>
        /\ rpc_receipt.maybe_pending = "Receipt"
        /\ rpc_receipt.kind = receipt.tx_type
        /\ rpc_receipt.transaction_hash = receipt.transaction_hash
        /\ rpc_receipt.actual_fee = receipt.actual_fee
        /\ rpc_receipt.block_hash = receipt.block_hash
        /\ rpc_receipt.block_number = receipt.block_number
        /\ rpc_receipt.status = status
        /\ Len(rpc_receipt.events) = Len(receipt.events)
        /\ \A i \in 1..Len(receipt.events) :
               /\ rpc_receipt.events[i].from_address = receipt.events[i].from_address
               /\ rpc_receipt.events[i].keys = receipt.events[i].keys
               /\ rpc_receipt.events[i].data = receipt.events[i].data
        /\ rpc_receipt.messages_sent = << >>

C10_Witness ==
    /\ rpc_receipt # NoReceipt
    /\ receipt.tx_type = "DeployAccount"
    /\ status = "Rejected"
    /\ Len(receipt.events) = 2
    /\ receipt.events[1] # receipt.events[2]
    /\ rpc_receipt.events[1].keys = receipt.events[1].keys
    /\ rpc_receipt.status = "Rejected"

\* C11: DeployAccountTransaction::try_from fails, with MissingClassHash,
\* exactly when the class hash is absent; an absent salt is no failure: the
\* variant's salt is the canonical salt when present and zero when absent,
\* and version, signature, sender address, nonce, calldata and max fee are
\* copied as they are.
C11_DeployAccountDowncast ==
    (tx # NoTx /\ result.op = "DeployAccountTryFrom") =>
        IF tx.call_entrypoint.class_hash = None
        THEN IsErr(result.res, "MissingClassHash")
        ELSE /\ IsOk(result.res)
             /\ result.res.value.account_class_hash = tx.call_entrypoint.class_hash[1]
             /\ (tx.contract_address_salt # None)
                    => result.res.value.salt = tx.contract_address_salt[1]
             /\ (tx.contract_address_salt = None) => result.res.value.salt = 0
             /\ result.res.value.version = tx.version
             /\ result.res.value.signature = tx.signature
             /\ result.res.value.sender_address = tx.sender_address
             /\ result.res.value.nonce = tx.nonce
             /\ result.res.value.calldata = tx.call_entrypoint.calldata
             /\ result.res.value.max_fee = tx.max_fee

C11_Witness ==
    /\ tx # NoTx
    /\ result.op = "DeployAccountTryFrom"
    /\ tx.tx_type = "DeployAccount"
    /\ tx.contract_address_salt = None
    /\ tx.call_entrypoint.class_hash # None
    /\ tx.call_entrypoint.calldata # << >>
    /\ IsOk(result.res)
    /\ result.res.value.salt = 0

\* C12: an Invoke variant of version 1, upcast with from_invoke and then
\* projected, gives the public Invoke V1 sub-kind with the variant's sender
\* address, calldata (element by element, empty when it is empty), nonce,
\* max fee and signature, and with the hash computed at upcast.
C12_InvokeV1Pipeline ==
    (orig.kind = "Invoke" /\ orig.v.version = 1 /\ result.op = "RPCTryFrom") =>
        /\ IsOk(result.res)
        /\ result.res.value.kind = "Invoke"
        /\ result.res.value.sub = "V1"
        /\ result.res.value.sender_address = orig.v.sender_address
        /\ Len(result.res.value.calldata) = Len(orig.v.calldata)
        /\ \A i \in 1..Len(orig.v.calldata) :
               result.res.value.calldata[i] = orig.v.calldata[i]
        /\ result.res.value.nonce = orig.v.nonce
        /\ result.res.value.max_fee = orig.v.max_fee
        /\ result.res.value.signature = orig.v.signature
        /\ result.res.value.transaction_hash = calculate_invoke_tx_hash(orig.v, chain_id)

C12_Witness ==
    /\ orig.kind = "Invoke"
    /\ orig.v.version = 1
    /\ orig.v.calldata = << >>
    /\ orig.v.sender_address = 1
    /\ orig.v.nonce = 0
    /\ result.op = "RPCTryFrom"
    /\ IsOk(result.res)
    /\ result.res.value.sub = "V1"
    /\ result.res.value.sender_address = 1
    /\ result.res.value.calldata = << >>

\* C13: the contract_address of a projected DeployAccount receipt is the
\* address the canonical receipt carries, not a value fixed at projection:
\* some other DeployAccount receipt is projected to another contract_address.
C13_DeployedAddressNotSentinel ==
    (rpc_receipt # NoReceipt /\ receipt.tx_type = "DeployAccount") =>
        \E r \in TransactionReceiptWrapper :
            /\ r.tx_type = "DeployAccount"
            /\ into_maybe_pending_transaction_receipt(r, status).contract_address
                   # rpc_receipt.contract_address

\* C14: an Invoke variant of version 0, upcast with from_invoke and then
\* projected, fails with MissingInformation, and an upcast Invoke variant
\* whose projection succeeds has version 1.
C14_InvokeV0Pipeline ==
    (orig.kind = "Invoke" /\ result.op = "RPCTryFrom") =>
        /\ tx.call_entrypoint.entrypoint_selector = None
        /\ (orig.v.version = 0) => IsErr(result.res, "MissingInformation")
        /\ IsOk(result.res) => orig.v.version = 1

C14_Witness ==
    /\ orig.kind = "Invoke"
    /\ orig.v.version = 0
    /\ orig.v.calldata # << >>
    /\ result.op = "RPCTryFrom"
    /\ IsErr(result.res, "MissingInformation")

====
